---- MODULE Spec2Model ----
(***************************************************************************)
(* State-machine model of the ERPlora tasks module: the Task and           *)
(* TaskSettings tables, the view handlers of views.py that mutate them     *)
(* (task_add, task_edit, task_delete, task_complete, task_reopen,          *)
(* task_bulk_action, settings_view), the assistant tool                    *)
(* UpdateTaskStatus of ai_tools.py, and the read queries (list, dashboard, *)
(* calendar).  A request that looks the settings row up may also run in    *)
(* steps, interleaved with another request: inflight holds its position.   *)
(*                                                                         *)
(* Time is counted in ticks; DayTicks ticks make one day.  Every           *)
(* timezone.now() of the source is a read of the variable clock; two reads *)
(* inside one handler may see different values.                            *)
(***************************************************************************)
EXTENDS Integers, Sequences, FiniteSets, TLC

VARIABLES tasks, settings, clock, last, inflight

vars == <<tasks, settings, clock, last, inflight>>

\* ------------------------------------------------------------------ bounds

\* Most rows the Task table holds in the model.
MaxTasks == 2

\* Last tick the clock reaches.
MaxTime == 1

\* Ticks per day.
DayTicks == 2

\* --------------------------------------------------------------- constants

\* Python's None, where the other values are strings.
None == "None"

\* An optional timestamp: Null (None), or At(t).
Null == <<>>

At(t) == <<t>>

\* The tenants (hub ids) of the model.
Hubs == {"h1", "h2"}

TYPE_CHOICES == {"task", "call", "meeting", "email", "follow_up"}

PRIORITY_CHOICES == {"low", "medium", "high", "urgent"}

STATUS_CHOICES == {"pending", "in_progress", "completed", "cancelled"}

\* Task.reminder_before_minutes default, and the fallback of the handlers.
DEFAULT_REMINDER == 30

\* timedelta(days=3) of task_complete.
FOLLOW_UP_DAYS == 3

\* ------------------------------------------------------------------ strings

\* A string is a sequence of one-character strings.
RECURSIVE lstrip(_)
lstrip(s) ==
    IF s # <<>> /\ Head(s) = " " THEN lstrip(Tail(s)) ELSE s

RECURSIVE rstrip(_)
rstrip(s) ==
    IF s # <<>> /\ s[Len(s)] = " " THEN rstrip(SubSeq(s, 1, Len(s) - 1)) ELSE s

\* str.strip()
strip(s) == rstrip(lstrip(s))

Digits == {"0", "1", "2", "3", "4", "5", "6", "7", "8", "9"}

DigitValue(c) ==
    CASE c = "0" -> 0 [] c = "1" -> 1 [] c = "2" -> 2 [] c = "3" -> 3
      [] c = "4" -> 4 [] c = "5" -> 5 [] c = "6" -> 6 [] c = "7" -> 7
      [] c = "8" -> 8 [] c = "9" -> 9

\* Whether int(text) returns; otherwise it raises ValueError.
is_int(text) ==
    text # <<>> /\ \A i \in DOMAIN text : text[i] \in Digits

\* int(text) of a string of digits.
RECURSIVE parse_int(_)
parse_int(text) ==
    IF text = <<>> THEN 0
    ELSE 10 * parse_int(SubSeq(text, 1, Len(text) - 1)) + DigitValue(text[Len(text)])

\* Whether `int(reminder) if reminder else 30` raises, reminder stripped.
reminder_raises(raw) ==
    strip(raw) # <<>> /\ ~is_int(strip(raw))

\* `int(reminder) if reminder else 30`, reminder stripped.
reminder_minutes(raw) ==
    IF strip(raw) = <<>> THEN DEFAULT_REMINDER ELSE parse_int(strip(raw))

\* _('Follow-up: %(title)s') % {'title': title}, untranslated.
follow_up_title(title) == <<"Follow-up: ">> \o title

\* ------------------------------------------------------------------ storage

\* A row of tasks_task (models.py, class Task).  The free-text and audit
\* columns that no handler reads (description, location, result, ...) are
\* written like title and are not carried.
new_task(hub, title, task_type, priority, due_date, customer, reminder) ==
    [hub_id |-> hub,
     title |-> title,
     task_type |-> task_type,
     priority |-> priority,
     status |-> "pending",
     due_date |-> due_date,
     completed_at |-> Null,
     customer |-> customer,
     reminder_before_minutes |-> reminder,
     is_deleted |-> FALSE,
     deleted_at |-> Null]

\* A row of tasks_settings with the declared defaults (class TaskSettings).
new_settings(hub) ==
    [hub_id |-> hub,
     default_reminder_minutes |-> DEFAULT_REMINDER,
     auto_create_follow_up |-> FALSE]

\* TaskSettings.get_for_hub: objects.get_or_create(hub_id=hub_id).
\* Two rows of one hub make get() raise MultipleObjectsReturned.
get_for_hub(rows, hub) ==
    LET m == {i \in DOMAIN rows : rows[i].hub_id = hub}
    IN  IF m = {}
        THEN [rows |-> Append(rows, new_settings(hub)),
              at |-> Len(rows) + 1, raised |-> FALSE]
        ELSE IF Cardinality(m) = 1
        THEN [rows |-> rows, at |-> CHOOSE i \in m : TRUE, raised |-> FALSE]
        ELSE [rows |-> rows, at |-> 0, raised |-> TRUE]

\* get_object_or_404(Task, id=task_id, hub_id=hub, is_deleted=False) finds a row.
get_object_or_404_cross_tenant(tk, hub, task_id) ==
    /\ task_id \in DOMAIN tk
    /\ ~tk[task_id].is_deleted

get_object_or_404(tk, hub, task_id) ==
    /\ task_id \in DOMAIN tk
    /\ tk[task_id].hub_id = hub
    /\ ~tk[task_id].is_deleted

\* Task.mark_complete
mark_complete_status_only(t, now) ==
    [t EXCEPT !.status = "completed"]

mark_complete(t, now) ==
    [t EXCEPT !.status = "completed", !.completed_at = At(now)]

\* Task.mark_reopen
mark_reopen_status_only(t) ==
    [t EXCEPT !.status = "pending"]

mark_reopen(t) ==
    [t EXCEPT !.status = "pending", !.completed_at = Null]

\* The soft delete of task_delete.
soft_delete_flag_only(t, now) ==
    [t EXCEPT !.is_deleted = TRUE]

soft_delete(t, now) ==
    [t EXCEPT !.is_deleted = TRUE, !.deleted_at = At(now)]

\* The Task.objects.create(...) of task_complete.
follow_up_task_inherit(hub, task, st, now) ==
    new_task(hub, follow_up_title(task.title), "follow_up", task.priority,
             At(now + FOLLOW_UP_DAYS * DayTicks), task.customer,
             st.default_reminder_minutes)

follow_up_task(hub, task, st, now) ==
    new_task(hub, follow_up_title(task.title), "follow_up", "medium",
             At(now + FOLLOW_UP_DAYS * DayTicks), task.customer,
             st.default_reminder_minutes)

\* The condition of task_complete's follow-up branch.
wants_follow_up_any_type(st, task) ==
    st.auto_create_follow_up

wants_follow_up(st, task) ==
    st.auto_create_follow_up /\ task.task_type \in {"call", "meeting"}

\* The try/except block of task_complete: the tables it leaves.  fail names
\* the statement that raises: "none", "settings" (get_for_hub) or "create"
\* (Task.objects.create); except Exception: pass swallows either.
try_follow_up(tk, st, hub, task, fail, now) ==
    IF fail = "settings"
    THEN [tasks |-> tk, settings |-> st]
    ELSE LET g == get_for_hub(st, hub)
         IN  IF g.raised
             THEN [tasks |-> tk, settings |-> st]
             ELSE IF wants_follow_up(g.rows[g.at], task) /\ fail = "none"
             THEN [tasks |-> Append(tk, follow_up_task(hub, task, g.rows[g.at], now)),
                   settings |-> g.rows]
             ELSE [tasks |-> tk, settings |-> g.rows]

\* task_complete after the lookup: mark_complete, then the try block.
complete_and_schedule_atomic(tk, st, hub, task_id, fail, now1, now2) ==
    IF fail # "none"
    THEN [tasks |-> tk, settings |-> st]
    ELSE try_follow_up([tk EXCEPT ![task_id] = mark_complete(@, now1)], st, hub,
                       mark_complete(tk[task_id], now1), fail, now2)

complete_and_schedule(tk, st, hub, task_id, fail, now1, now2) ==
    try_follow_up([tk EXCEPT ![task_id] = mark_complete(@, now1)], st, hub,
                  mark_complete(tk[task_id], now1), fail, now2)

\* Whether the try block reaches its second timezone.now().
reaches_create(tk, st, hub, task_id, fail) ==
    /\ fail # "settings"
    /\ ~get_for_hub(st, hub).raised
    /\ LET g == get_for_hub(st, hub)
       IN  wants_follow_up(g.rows[g.at], tk[task_id])

\* ----------------------------------------------------------------- requests

AddCall ==
    [title |-> <<" ", "a">>, task_type |-> "call", priority |-> "urgent",
     due_date |-> At(1), customer |-> "c1", reminder |-> <<>>]

EditDone ==
    [title |-> <<"a">>, task_type |-> "call", priority |-> "urgent",
     status |-> "completed", due_date |-> At(1), customer |-> "c1",
     reminder |-> <<>>]

AddMeeting ==
    [title |-> <<"b">>, task_type |-> "meeting", priority |-> "low",
     due_date |-> Null, customer |-> None, reminder |-> <<"1", "5">>]

AddTask ==
    [title |-> <<"a">>, task_type |-> "task", priority |-> "medium",
     due_date |-> Null, customer |-> None, reminder |-> <<>>]

AddEmail ==
    [title |-> <<"a">>, task_type |-> "email", priority |-> "high",
     due_date |-> Null, customer |-> None, reminder |-> <<>>]

AddFollowUp ==
    [title |-> <<"a">>, task_type |-> "follow_up", priority |-> "high",
     due_date |-> Null, customer |-> None, reminder |-> <<>>]

EditToTask ==
    [title |-> <<"a", " ">>, task_type |-> "task", priority |-> "medium",
     status |-> None, due_date |-> Null, customer |-> None,
     reminder |-> <<>>]

\* A create request without a title, an edit request whose title is blank.
AddBlank ==
    [title |-> <<>>, task_type |-> "meeting", priority |-> "low",
     due_date |-> Null, customer |-> None, reminder |-> <<>>]

EditBlank ==
    [title |-> <<" ">>, task_type |-> "task", priority |-> "low",
     status |-> "cancelled", due_date |-> Null, customer |-> None,
     reminder |-> <<"5">>]

\* Requests that carry values outside the declared choices.
AddUndeclared ==
    [title |-> <<"a">>, task_type |-> "New Task Type", priority |-> "New Priority",
     due_date |-> Null, customer |-> None, reminder |-> <<>>]

EditUndeclared ==
    [title |-> <<"a">>, task_type |-> "call", priority |-> "urgent",
     status |-> "Updated Status", due_date |-> At(1), customer |-> "c1",
     reminder |-> <<>>]

UpdateUndeclared == [status |-> "done", priority |-> None]

PostOn ==
    [default_reminder_minutes |-> <<"1", "5">>, auto_create_follow_up |-> "on"]

UpdateProgress == [status |-> "in_progress", priority |-> "high"]

UpdateCancelled == [status |-> "cancelled", priority |-> None]

\* Task ids a request may name: every stored id and one that is not stored.
RequestIds == 1 .. (MaxTasks + 1)

\* The requests that may be in progress at once.
Requests == {"r1", "r2"}

\* A request slot that runs no handler.
Idle ==
    [pc |-> "idle", kind |-> None, hub |-> None, id |-> 0, row |-> new_settings(None)]

\* What the handlers answer.
Outcome(op, hub, task_id, ids, fail, outcome) ==
    [op |-> op, hub |-> hub, id |-> task_id, ids |-> ids, fail |-> fail,
     outcome |-> outcome]

\* -------------------------------------------------------------------- state

Init ==
    /\ tasks = <<>>
    /\ settings = <<>>
    /\ clock = 0
    /\ last = Outcome("init", None, 0, {}, "none", "ok")
    /\ inflight = [r \in Requests |-> Idle]

\* Time passes between two requests.
Tick ==
    /\ clock < MaxTime
    /\ clock' = clock + 1
    /\ last' = Outcome("tick", None, 0, {}, "none", "ok")
    /\ UNCHANGED <<tasks, settings>>

\* ----------------------------------------------------------------- handlers

\* views.task_add, POST
task_add(hub, req) ==
    LET title == strip(req.title)
        reminder == reminder_minutes(req.reminder)
    IN  /\ Len(tasks) < MaxTasks
        /\ IF title = <<>>
           THEN /\ last' = Outcome("add", hub, 0, {}, "none", "invalid")
                /\ UNCHANGED <<tasks, settings, clock>>
           ELSE IF reminder_raises(req.reminder)
           THEN /\ last' = Outcome("add", hub, 0, {}, "none", "error")
                /\ UNCHANGED <<tasks, settings, clock>>
           ELSE /\ tasks' = Append(tasks,
                        new_task(hub, title, req.task_type, req.priority,
                                 req.due_date, req.customer, reminder))
                /\ last' = Outcome("add", hub, Len(tasks) + 1, {}, "none", "ok")
                /\ UNCHANGED <<settings, clock>>

\* The assignments of task_edit, lines 328-340.
edit_fields(t, title, req, reminder) ==
    [t EXCEPT !.title = title,
              !.task_type = req.task_type,
              !.priority = req.priority,
              !.status = IF req.status = None THEN @ ELSE req.status,
              !.due_date = req.due_date,
              !.customer = req.customer,
              !.reminder_before_minutes = reminder]

\* views.task_edit, POST
task_edit_title_unchecked(hub, task_id, req) ==
    LET title == strip(req.title)
        reminder == reminder_minutes(req.reminder)
    IN  IF ~get_object_or_404(tasks, hub, task_id)
        THEN /\ last' = Outcome("edit", hub, task_id, {}, "none", "not_found")
             /\ UNCHANGED <<tasks, settings, clock>>
        ELSE IF reminder_raises(req.reminder)
        THEN /\ last' = Outcome("edit", hub, task_id, {}, "none", "error")
             /\ UNCHANGED <<tasks, settings, clock>>
        ELSE /\ tasks' = [tasks EXCEPT ![task_id] = edit_fields(@, title, req, reminder)]
             /\ last' = Outcome("edit", hub, task_id, {}, "none", "ok")
             /\ UNCHANGED <<settings, clock>>

task_edit(hub, task_id, req) ==
    LET title == strip(req.title)
        reminder == reminder_minutes(req.reminder)
    IN  IF ~get_object_or_404(tasks, hub, task_id)
        THEN /\ last' = Outcome("edit", hub, task_id, {}, "none", "not_found")
             /\ UNCHANGED <<tasks, settings, clock>>
        ELSE IF title = <<>>
        THEN /\ last' = Outcome("edit", hub, task_id, {}, "none", "invalid")
             /\ UNCHANGED <<tasks, settings, clock>>
        ELSE IF reminder_raises(req.reminder)
        THEN /\ last' = Outcome("edit", hub, task_id, {}, "none", "error")
             /\ UNCHANGED <<tasks, settings, clock>>
        ELSE /\ tasks' = [tasks EXCEPT ![task_id] = edit_fields(@, title, req, reminder)]
             /\ last' = Outcome("edit", hub, task_id, {}, "none", "ok")
             /\ UNCHANGED <<settings, clock>>

\* views.task_delete
task_delete_hard(hub, task_id) ==
    IF ~get_object_or_404(tasks, hub, task_id)
    THEN /\ last' = Outcome("delete", hub, task_id, {}, "none", "not_found")
         /\ UNCHANGED <<tasks, settings, clock>>
    ELSE /\ tasks' = SubSeq(tasks, 1, task_id - 1)
                        \o SubSeq(tasks, task_id + 1, Len(tasks))
         /\ last' = Outcome("delete", hub, task_id, {}, "none", "ok")
         /\ UNCHANGED <<settings, clock>>

task_delete(hub, task_id) ==
    IF ~get_object_or_404(tasks, hub, task_id)
    THEN /\ last' = Outcome("delete", hub, task_id, {}, "none", "not_found")
         /\ UNCHANGED <<tasks, settings, clock>>
    ELSE /\ tasks' = [tasks EXCEPT ![task_id] = soft_delete(@, clock)]
         /\ last' = Outcome("delete", hub, task_id, {}, "none", "ok")
         /\ UNCHANGED <<settings, clock>>

\* views.task_complete.  drift: the ticks between mark_complete's
\* timezone.now() and the one that dates the follow-up.
task_complete(hub, task_id, fail, drift) ==
    IF ~get_object_or_404(tasks, hub, task_id)
    THEN /\ fail = "none" /\ drift = 0
         /\ last' = Outcome("complete", hub, task_id, {}, "none", "not_found")
         /\ UNCHANGED <<tasks, settings, clock>>
    ELSE LET r == complete_and_schedule(tasks, settings, hub, task_id, fail,
                                        clock, clock + drift)
         IN  /\ clock + drift <= MaxTime
             /\ fail = "create" => reaches_create(tasks, settings, hub, task_id, fail)
             /\ drift # 0 => reaches_create(tasks, settings, hub, task_id, fail)
             /\ Len(r.tasks) <= MaxTasks
             /\ tasks' = r.tasks
             /\ settings' = r.settings
             /\ clock' = clock + drift
             /\ last' = Outcome("complete", hub, task_id, {}, fail, "ok")

\* views.task_reopen
task_reopen(hub, task_id) ==
    IF ~get_object_or_404(tasks, hub, task_id)
    THEN /\ last' = Outcome("reopen", hub, task_id, {}, "none", "not_found")
         /\ UNCHANGED <<tasks, settings, clock>>
    ELSE /\ tasks' = [tasks EXCEPT ![task_id] = mark_reopen(@)]
         /\ last' = Outcome("reopen", hub, task_id, {}, "none", "ok")
         /\ UNCHANGED <<settings, clock>>

\* The rows Task.objects.filter(hub_id=hub, id__in=ids, is_deleted=False) selects.
bulk_selection_open_only(tk, hub, ids) ==
    {i \in DOMAIN tk :
        /\ i \in ids /\ tk[i].hub_id = hub /\ ~tk[i].is_deleted
        /\ tk[i].status \in {"pending", "in_progress"}}

bulk_selection_any_tenant(tk, hub, ids) ==
    {i \in DOMAIN tk : i \in ids /\ ~tk[i].is_deleted}

bulk_selection(tk, hub, ids) ==
    {i \in DOMAIN tk : i \in ids /\ tk[i].hub_id = hub /\ ~tk[i].is_deleted}

\* views.task_bulk_action; ids: the ids the comma-separated field names.
task_bulk_action(hub, ids, action) ==
    LET sel == bulk_selection(tasks, hub, ids)
    IN  /\ last' = Outcome("bulk_" \o action, hub, 0, ids, "none", "ok")
        /\ UNCHANGED <<settings, clock>>
        /\ IF ids = {} \/ action = ""
           THEN UNCHANGED tasks
           ELSE IF action = "complete"
           THEN tasks' = [i \in DOMAIN tasks |->
                            IF i \in sel
                            THEN [tasks[i] EXCEPT !.status = "completed",
                                                  !.completed_at = At(clock)]
                            ELSE tasks[i]]
           ELSE IF action = "delete"
           THEN tasks' = [i \in DOMAIN tasks |->
                            IF i \in sel THEN soft_delete(tasks[i], clock)
                            ELSE tasks[i]]
           ELSE UNCHANGED tasks

\* views.settings_view; req is read on a POST only.
settings_view(hub, method, req) ==
    LET g == get_for_hub(settings, hub)
        reminder == reminder_minutes(req.default_reminder_minutes)
    IN  /\ UNCHANGED <<tasks, clock>>
        /\ IF g.raised
           THEN /\ last' = Outcome("settings", hub, 0, {}, "none", "error")
                /\ UNCHANGED settings
           ELSE IF method = "GET"
           THEN /\ last' = Outcome("settings", hub, 0, {}, "none", "ok")
                /\ settings' = g.rows
           ELSE IF reminder_raises(req.default_reminder_minutes)
           THEN /\ last' = Outcome("settings", hub, 0, {}, "none", "error")
                /\ settings' = g.rows
           ELSE /\ last' = Outcome("settings", hub, 0, {}, "none", "ok")
                /\ settings' = [g.rows EXCEPT ![g.at] =
                       [@ EXCEPT !.default_reminder_minutes = reminder,
                                 !.auto_create_follow_up =
                                     (req.auto_create_follow_up = "on")]]

\* The assignments of UpdateTaskStatus.execute, lines 104-109.
update_fields(t, args, now) ==
    [t EXCEPT !.status = IF args.status = None THEN @ ELSE args.status,
              !.completed_at = IF args.status = "completed" THEN At(now) ELSE @,
              !.priority = IF args.priority = None THEN @ ELSE args.priority]

\* ai_tools.UpdateTaskStatus.execute: Task.objects.get(id=...) names no hub;
\* the default manager leaves soft-deleted rows out (tests/test_models.py).
UpdateTaskStatus_execute(task_id, args) ==
    IF ~(task_id \in DOMAIN tasks /\ ~tasks[task_id].is_deleted)
    THEN /\ last' = Outcome("assistant_update", None, task_id, {}, "none", "not_found")
         /\ UNCHANGED <<tasks, settings, clock>>
    ELSE /\ tasks' = [tasks EXCEPT ![task_id] = update_fields(@, args, clock)]
         /\ last' = Outcome("assistant_update", None, task_id, {}, "none", "ok")
         /\ UNCHANGED <<settings, clock>>

\* The handlers, over the tenants and request bodies given: owners create
\* tasks, hubs send every other request.
NextOver(owners, hubs, adds, edits, posts, updates, idsets, actions, fails, drifts) ==
    /\ UNCHANGED inflight
    /\ \/ Tick
       \/ \E hub \in owners, req \in adds : task_add(hub, req)
       \/ \E hub \in hubs, task_id \in RequestIds, req \in edits :
             task_edit(hub, task_id, req)
       \/ \E hub \in hubs, task_id \in RequestIds : task_delete(hub, task_id)
       \/ \E hub \in hubs, task_id \in RequestIds, fail \in fails, drift \in drifts :
             task_complete(hub, task_id, fail, drift)
       \/ \E hub \in hubs, task_id \in RequestIds : task_reopen(hub, task_id)
       \/ \E hub \in hubs, ids \in idsets, action \in actions :
             task_bulk_action(hub, ids, action)
       \/ \E hub \in hubs, method \in {"GET", "POST"}, req \in posts :
             settings_view(hub, method, req)
       \/ \E task_id \in RequestIds, args \in updates :
             UpdateTaskStatus_execute(task_id, args)

\* Two tenants own tasks; tenant h1 sends the requests, also for the ids of
\* h2's tasks and for ids that are not stored.
Next ==
    NextOver(Hubs, {"h1"}, {AddCall}, {EditDone}, {PostOn}, {UpdateProgress},
             {{1, 2}}, {"complete", "delete"}, {"none", "settings", "create"}, {0, 1})

Spec == Init /\ [][Next]_vars

\* One tenant, tasks of every declared type.
NextTypes ==
    NextOver({"h1"}, {"h1"}, {AddCall, AddMeeting, AddTask, AddEmail, AddFollowUp},
             {EditToTask}, {PostOn}, {UpdateCancelled},
             {{1, 2}}, {"complete", "delete"}, {"none", "create"}, {0, 1})

SpecTypes == Init /\ [][NextTypes]_vars

\* Two tenants own tasks; tenant h1 sends bulk requests with every shape of
\* id list (empty, one id, both ids) and of action (empty, known, unknown).
NextBulk ==
    NextOver(Hubs, {"h1"}, {AddCall}, {EditDone}, {PostOn}, {UpdateProgress},
             {{}, {1}, {1, 2}}, {"", "complete", "delete", "archive"},
             {"none"}, {0})

SpecBulk == Init /\ [][NextBulk]_vars

\* One tenant sends create and edit requests without a title and create,
\* edit and assistant requests with undeclared type, priority and status.
NextInputs ==
    NextOver({"h1"}, {"h1"}, {AddCall, AddBlank, AddUndeclared},
             {EditBlank, EditUndeclared}, {PostOn}, {UpdateUndeclared},
             {{1, 2}}, {"complete", "delete"}, {"none"}, {0})

SpecInputs == Init /\ [][NextInputs]_vars

\* ------------------------------------------------- requests running in steps

\* settings_view entered with GET: hub = _hub_id(request), before get_for_hub.
settings_view_begin(r, hub) ==
    /\ inflight[r].pc = "idle"
    /\ inflight' = [inflight EXCEPT ![r] =
           [pc |-> "get", kind |-> "settings", hub |-> hub, id |-> 0,
            row |-> new_settings(None)]]
    /\ last' = Outcome("settings", hub, 0, {}, "none", "begun")
    /\ UNCHANGED <<tasks, settings, clock>>

\* task_complete up to and with task.mark_complete(), before the try block.
task_complete_begin(r, hub, task_id) ==
    /\ inflight[r].pc = "idle"
    /\ get_object_or_404(tasks, hub, task_id)
    /\ tasks' = [tasks EXCEPT ![task_id] = mark_complete(@, clock)]
    /\ inflight' = [inflight EXCEPT ![r] =
           [pc |-> "get", kind |-> "complete", hub |-> hub, id |-> task_id,
            row |-> new_settings(None)]]
    /\ last' = Outcome("complete", hub, task_id, {}, "none", "begun")
    /\ UNCHANGED <<settings, clock>>

\* get_or_create's self.get(hub_id=hub_id): one row is returned, no row
\* sends the request on to create(), several rows raise
\* MultipleObjectsReturned, which task_complete swallows and settings_view
\* does not.
get_or_create_get(r) ==
    LET q == inflight[r]
        m == {i \in DOMAIN settings : settings[i].hub_id = q.hub}
    IN  /\ q.pc = "get"
        /\ UNCHANGED <<tasks, settings, clock>>
        /\ IF m = {}
           THEN /\ inflight' = [inflight EXCEPT ![r].pc = "create"]
                /\ last' = Outcome(q.kind, q.hub, q.id, {}, "none", "missing")
           ELSE IF Cardinality(m) = 1
           THEN /\ inflight' = [inflight EXCEPT ![r].pc = "have",
                                               ![r].row = settings[CHOOSE i \in m : TRUE]]
                /\ last' = Outcome(q.kind, q.hub, q.id, {}, "none", "found")
           ELSE /\ inflight' = [inflight EXCEPT ![r] = Idle]
                /\ last' = Outcome(q.kind, q.hub, q.id, {}, "settings",
                                   IF q.kind = "complete" THEN "ok" ELSE "error")

\* get_or_create's self.create(hub_id=hub_id): tasks_settings declares no
\* unique constraint on hub_id, so the insert always succeeds.
get_or_create_create(r) ==
    LET q == inflight[r]
    IN  /\ q.pc = "create"
        /\ settings' = Append(settings, new_settings(q.hub))
        /\ inflight' = [inflight EXCEPT ![r].pc = "have",
                                       ![r].row = new_settings(q.hub)]
        /\ last' = Outcome(q.kind, q.hub, q.id, {}, "none", "created")
        /\ UNCHANGED <<tasks, clock>>

\* The handler after get_for_hub returned: settings_view renders;
\* task_complete creates the follow-up when the row it read asks for one.
request_finish(r) ==
    LET q == inflight[r]
    IN  /\ q.pc = "have"
        /\ inflight' = [inflight EXCEPT ![r] = Idle]
        /\ last' = Outcome(q.kind, q.hub, q.id, {}, "none", "ok")
        /\ UNCHANGED <<settings, clock>>
        /\ IF q.kind = "complete" /\ wants_follow_up(q.row, tasks[q.id])
           THEN /\ Len(tasks) < MaxTasks
                /\ tasks' = Append(tasks, follow_up_task(q.hub, tasks[q.id], q.row, clock))
           ELSE UNCHANGED tasks

\* Two requests of tenant h1 run their settings lookup in steps, next to
\* handlers that run in one step.
NextRace ==
    \/ \E r \in Requests : settings_view_begin(r, "h1")
    \/ \E r \in Requests, task_id \in RequestIds : task_complete_begin(r, "h1", task_id)
    \/ \E r \in Requests : get_or_create_get(r)
    \/ \E r \in Requests : get_or_create_create(r)
    \/ \E r \in Requests : request_finish(r)
    \/ task_add("h1", AddCall) /\ UNCHANGED inflight
    \/ settings_view("h1", "POST", PostOn) /\ UNCHANGED inflight

SpecRace == Init /\ [][NextRace]_vars

\* ------------------------------------------ complete and reopen without a lock

\* task_complete and task_reopen read the task: get_object_or_404 loads the
\* row into the request, or answers 404.
task_read(r, hub, task_id, kind) ==
    /\ inflight[r].pc = "idle"
    /\ UNCHANGED <<tasks, settings, clock>>
    /\ IF ~get_object_or_404(tasks, hub, task_id)
       THEN /\ last' = Outcome(kind, hub, task_id, {}, "none", "not_found")
            /\ UNCHANGED inflight
       ELSE /\ last' = Outcome(kind, hub, task_id, {}, "none", "loaded")
            /\ inflight' = [inflight EXCEPT ![r] =
                   [pc |-> "loaded", kind |-> kind, hub |-> hub, id |-> task_id,
                    row |-> new_settings(None)]]

\* task.mark_complete(): save(update_fields=[status, completed_at, updated_at])
\* writes the two columns in one UPDATE of the row; the try block follows.
task_complete_save(r) ==
    LET q == inflight[r]
    IN  /\ q.pc = "loaded"
        /\ q.kind = "complete"
        /\ tasks' = [tasks EXCEPT ![q.id] = mark_complete(@, clock)]
        /\ inflight' = [inflight EXCEPT ![r].pc = "get"]
        /\ last' = Outcome("complete", q.hub, q.id, {}, "none", "saved")
        /\ UNCHANGED <<settings, clock>>

\* task.mark_reopen(): the same columns in one UPDATE; the handler answers.
task_reopen_save(r) ==
    LET q == inflight[r]
    IN  /\ q.pc = "loaded"
        /\ q.kind = "reopen"
        /\ tasks' = [tasks EXCEPT ![q.id] = mark_reopen(@)]
        /\ inflight' = [inflight EXCEPT ![r] = Idle]
        /\ last' = Outcome("reopen", q.hub, q.id, {}, "none", "ok")
        /\ UNCHANGED <<settings, clock>>

\* Two requests of tenant h1 complete and reopen its tasks, each step of one
\* free to fall between two steps of the other.
NextUnlocked ==
    \/ Tick /\ UNCHANGED inflight
    \/ task_add("h1", AddCall) /\ UNCHANGED inflight
    \/ \E r \in Requests, task_id \in RequestIds, kind \in {"complete", "reopen"} :
          task_read(r, "h1", task_id, kind)
    \/ \E r \in Requests : task_complete_save(r)
    \/ \E r \in Requests : task_reopen_save(r)
    \/ \E r \in Requests : get_or_create_get(r)
    \/ \E r \in Requests : get_or_create_create(r)
    \/ \E r \in Requests : request_finish(r)

SpecUnlocked == Init /\ [][NextUnlocked]_vars

\* ------------------------------------------------------------------ queries

\* Rows per list the dashboard shows: upcoming_tasks[:15], overdue_tasks[:10].
UPCOMING_LIMIT == 15

OVERDUE_LIMIT == 10

\* Days the upcoming list looks ahead, and days of a week.
UPCOMING_DAYS == 7

WEEK_DAYS == 7

\* due_date__lt=bound and its kin: a NULL column satisfies no comparison.
lt(stamp, bound) == stamp # Null /\ stamp[1] < bound

gte(stamp, bound) == stamp # Null /\ stamp[1] >= bound

lte(stamp, bound) == stamp # Null /\ stamp[1] <= bound

\* now.replace(hour=0, minute=0, second=0, microsecond=0)
today_start(now) == now - (now % DayTicks)

\* datetime.weekday(): day 0 of the clock is a Monday.
weekday(now) == (now \div DayTicks) % WEEK_DAYS

week_start_sunday(now) ==
    today_start(now) - ((weekday(now) + 1) % WEEK_DAYS) * DayTicks

week_start(now) == today_start(now) - weekday(now) * DayTicks

\* Task.all_objects: every stored row, soft-deleted or not.
all_objects(tk) == DOMAIN tk

\* Task.objects.filter(hub_id=hub, is_deleted=False), the base of every view query.
base_qs_with_deleted(tk, hub) ==
    {i \in DOMAIN tk : tk[i].hub_id = hub}

base_qs(tk, hub) ==
    {i \in DOMAIN tk : tk[i].hub_id = hub /\ ~tk[i].is_deleted}

\* Whether q occurs in s (icontains over a lower-case alphabet).
contains(s, q) ==
    \E i \in 1 .. (Len(s) + 1) :
        i + Len(q) - 1 <= Len(s) /\ SubSeq(s, i, i + Len(q) - 1) = q

\* task_list's queryset before ordering and paging; an empty filter is off.
\* The search reads the title; description and customer name are not stored here.
task_list(tk, hub, q, type_filter, status_filter, priority_filter) ==
    {i \in base_qs(tk, hub) :
        /\ type_filter # "" => tk[i].task_type = type_filter
        /\ status_filter # "" => tk[i].status = status_filter
        /\ priority_filter # "" => tk[i].priority = priority_filter
        /\ strip(q) # <<>> => contains(tk[i].title, strip(q))}

\* _render_task_list's queryset.
render_task_list(tk, hub) == base_qs(tk, hub)

open(t) == t.status \notin {"completed", "cancelled"}

\* The dashboard's counted sets.
due_today_inclusive(tk, hub, now) ==
    {i \in base_qs(tk, hub) :
        /\ gte(tk[i].due_date, today_start(now))
        /\ lte(tk[i].due_date, today_start(now) + DayTicks)
        /\ open(tk[i])}

due_today(tk, hub, now) ==
    {i \in base_qs(tk, hub) :
        /\ gte(tk[i].due_date, today_start(now))
        /\ lt(tk[i].due_date, today_start(now) + DayTicks)
        /\ open(tk[i])}

overdue_including_now(tk, hub, now) ==
    {i \in base_qs(tk, hub) :
        lte(tk[i].due_date, now) /\ tk[i].status \in {"pending", "in_progress"}}

overdue(tk, hub, now) ==
    {i \in base_qs(tk, hub) :
        lt(tk[i].due_date, now) /\ tk[i].status \in {"pending", "in_progress"}}

completed_this_week(tk, hub, now) ==
    {i \in base_qs(tk, hub) :
        /\ tk[i].status = "completed"
        /\ gte(tk[i].completed_at, week_start(now))
        /\ lt(tk[i].completed_at, week_start(now) + WEEK_DAYS * DayTicks)}

calls_today(tk, hub, now) ==
    {i \in due_today(tk, hub, now) : tk[i].task_type = "call"}

meetings_today(tk, hub, now) ==
    {i \in due_today(tk, hub, now) : tk[i].task_type = "meeting"}

\* The rows type_counts groups by task_type.
type_counts_rows(tk, hub) ==
    {i \in base_qs(tk, hub) : open(tk[i])}

upcoming_rows(tk, hub, now) ==
    {i \in base_qs(tk, hub) :
        /\ gte(tk[i].due_date, today_start(now))
        /\ lt(tk[i].due_date, today_start(now) + UPCOMING_DAYS * DayTicks)
        /\ open(tk[i])}

\* order_by('due_date')[:limit] over rows that all have a due_date; rows of
\* equal due_date come in id order.
RECURSIVE order_by_due_date_unsliced(_, _, _)
order_by_due_date_unsliced(tk, rows, limit) ==
    IF rows = {} THEN <<>>
    ELSE LET first == CHOOSE i \in rows :
                 \A j \in rows :
                     \/ tk[i].due_date[1] < tk[j].due_date[1]
                     \/ (tk[i].due_date[1] = tk[j].due_date[1] /\ i <= j)
         IN  <<first>> \o order_by_due_date_unsliced(tk, rows \ {first}, limit)

RECURSIVE order_by_due_date(_, _, _)
order_by_due_date(tk, rows, limit) ==
    IF rows = {} \/ limit = 0 THEN <<>>
    ELSE LET first == CHOOSE i \in rows :
                 \A j \in rows :
                     \/ tk[i].due_date[1] < tk[j].due_date[1]
                     \/ (tk[i].due_date[1] = tk[j].due_date[1] /\ i <= j)
         IN  <<first>> \o order_by_due_date(tk, rows \ {first}, limit - 1)

upcoming_tasks(tk, hub, now) ==
    order_by_due_date(tk, upcoming_rows(tk, hub, now), UPCOMING_LIMIT)

overdue_tasks(tk, hub, now) ==
    order_by_due_date(tk, overdue(tk, hub, now), OVERDUE_LIMIT)

\* calendar_data_api: the tasks due from month_start to month_end, the first
\* and the last instant of the month asked for.
calendar_data_api(tk, hub, month_start, month_end) ==
    {i \in base_qs(tk, hub) :
        gte(tk[i].due_date, month_start) /\ lte(tk[i].due_date, month_end)}

\* settings_view's stats.
total_tasks(tk, hub) == base_qs(tk, hub)

\* ---------------------------------------------------------- model properties

\* Task.is_overdue at instant now.
is_overdue_any_status(t, now) ==
    t.due_date # Null /\ now > t.due_date[1]

is_overdue(t, now) ==
    IF t.due_date # Null /\ t.status \in {"pending", "in_progress"}
    THEN now > t.due_date[1]
    ELSE FALSE

\* PRIORITY_ORDER
PRIORITY_ORDER ==
    [p \in PRIORITY_CHOICES |->
        CASE p = "urgent" -> 0 [] p = "high" -> 1 [] p = "medium" -> 2 [] p = "low" -> 3]

\* The fallback of PRIORITY_ORDER.get(self.priority, 2).
PRIORITY_FALLBACK == 2

\* Task.priority_order
priority_order_fallback_low(t) ==
    IF t.priority \in DOMAIN PRIORITY_ORDER THEN PRIORITY_ORDER[t.priority]
    ELSE PRIORITY_ORDER["low"]

priority_order(t) ==
    IF t.priority \in DOMAIN PRIORITY_ORDER THEN PRIORITY_ORDER[t.priority]
    ELSE PRIORITY_FALLBACK

\* --------------------------------------------------------------- read views

\* What a read view answers: the outcome and the values it computed.
Answer(op, hub, task_id, context) ==
    [op |-> op, hub |-> hub, id |-> task_id, ids |-> {}, fail |-> "none",
     outcome |-> "ok", context |-> context]

\* views.dashboard: the context it renders, every query at one now.
dashboard_context(tk, hub, now) ==
    [due_today |-> Cardinality(due_today(tk, hub, now)),
     overdue |-> Cardinality(overdue(tk, hub, now)),
     completed_this_week |-> Cardinality(completed_this_week(tk, hub, now)),
     calls_today |-> Cardinality(calls_today(tk, hub, now)),
     meetings_today |-> Cardinality(meetings_today(tk, hub, now)),
     upcoming_tasks |-> upcoming_tasks(tk, hub, now),
     overdue_tasks |-> overdue_tasks(tk, hub, now)]

dashboard(hub) ==
    /\ last' = Answer("dashboard", hub, 0, dashboard_context(tasks, hub, clock))
    /\ UNCHANGED <<tasks, settings, clock, inflight>>

\* A stored task's computed properties, read at the current instant.
task_properties(task_id) ==
    /\ task_id \in DOMAIN tasks
    /\ last' = Answer("properties", tasks[task_id].hub_id, task_id,
                      [is_overdue |-> is_overdue(tasks[task_id], clock),
                       priority_order |-> priority_order(tasks[task_id])])
    /\ UNCHANGED <<tasks, settings, clock, inflight>>

\* Instants of two weeks; tick 0 is a Monday 00:00.
WeekTicks == WEEK_DAYS * DayTicks

SundayLate == WeekTicks - 1

Monday == WeekTicks

Tuesday == WeekTicks + DayTicks + 1

Thursday == WeekTicks + 3 * DayTicks

\* A stored row with the given columns; a soft-deleted row was deleted at
\* tick 0, a completed_at is what some completion stamped.
stored_task(hub, task_type, priority, status, due_date, completed_at, is_deleted) ==
    [new_task(hub, <<"a">>, task_type, priority, due_date, None, DEFAULT_REMINDER)
        EXCEPT !.status = status,
               !.completed_at = completed_at,
               !.is_deleted = is_deleted,
               !.deleted_at = IF is_deleted THEN At(0) ELSE Null]

\* Rows the handlers can leave in the table: every status against due dates
\* around now (none, earlier this week, today, now, start of tomorrow, seven
\* days ahead); completions on both sides of the week's start; other types
\* and priorities, one of them not declared; a soft-deleted row and a row of
\* another tenant.
QueryRows ==
    {stored_task("h1", "call", "urgent", status, due_date,
                 IF status = "completed" THEN At(Tuesday) ELSE Null, FALSE) :
        status \in STATUS_CHOICES,
        due_date \in {Null, At(Monday), At(Thursday), At(Thursday + 1),
                      At(Thursday + DayTicks), At(Thursday + UPCOMING_DAYS * DayTicks)}}
    \cup {stored_task("h1", "task", "medium", "completed", Null, At(t), FALSE) :
            t \in {SundayLate, Monday, Thursday}}
    \cup {stored_task("h1", "meeting", "low", "pending", At(Thursday), Null, FALSE),
          stored_task("h1", "email", "high", "in_progress", At(Thursday), Null, FALSE),
          stored_task("h1", "task", "New Priority", "pending", At(Thursday), Null, FALSE),
          stored_task("h1", "call", "urgent", "pending", At(Thursday), Null, TRUE),
          stored_task("h1", "call", "urgent", "completed", At(Thursday), At(Tuesday), TRUE),
          stored_task("h2", "call", "urgent", "pending", At(Thursday), Null, FALSE),
          stored_task("h2", "call", "urgent", "completed", At(Thursday), At(Tuesday), FALSE)}

\* Rows of the table that fills both dashboard lists past their limits.
LongTableRows == 2 * (UPCOMING_LIMIT + 1)

\* Open tasks of tenant h1 due late Wednesday, on Thursday 00:00 and one
\* tick later, in no order.
LongTable ==
    [i \in 1 .. LongTableRows |->
        stored_task("h1", "call", "urgent", "pending",
                    At(Thursday - 1 + ((2 * i) % 3)), Null, FALSE)]

\* Every timestamp a handler stamped is no later than now.
Stamped(tk, now) ==
    \A i \in DOMAIN tk : tk[i].completed_at # Null => tk[i].completed_at[1] <= now

\* The tables of at most MaxTasks rows, and the long one.
QueryTables ==
    {tk \in UNION {[1 .. n -> QueryRows] : n \in 0 .. MaxTasks} : TRUE}
    \cup {LongTable}

\* The dashboard and the task properties read a stored table at an instant:
\* late Sunday, the Monday after, the Thursday after.
InitQueries ==
    /\ clock \in {SundayLate, Monday, Thursday + 1}
    /\ tasks \in {tk \in QueryTables : Stamped(tk, clock)}
    /\ settings = <<>>
    /\ last = Outcome("init", None, 0, {}, "none", "ok")
    /\ inflight = [r \in Requests |-> Idle]

NextQueries ==
    \/ \E hub \in Hubs : dashboard(hub)
    \/ \E task_id \in 1 .. MaxTasks : task_properties(task_id)

SpecQueries == InitQueries /\ [][NextQueries]_vars

\* ------------------------------------------------------------ list ordering

\* TASK_SORT_FIELDS, the two columns the model orders by; the text columns
\* (title, priority, status, type) compare as strings and are left out.
TASK_SORT_FIELDS == [due_date |-> "due_date", created |-> "created_at"]

\* A column of row i as the ORDER BY compares it.  Rows are appended in
\* creation order, so the row's position stands for created_at.  A NULL
\* due_date sorts above every date on some backends and below on others.
sort_key(tk, i, column, nulls_large) ==
    IF column = "created_at" THEN i
    ELSE IF tk[i].due_date = Null
    THEN (IF nulls_large THEN 1 ELSE 0 - 1) * (MaxTime + 100 * DayTicks)
    ELSE tk[i].due_date[1]

\* Row i must come before row j under the ordering keys, a sequence of
\* [column, desc].
sorts_before(tk, i, j, keys, nulls_large) ==
    \E k \in DOMAIN keys :
        /\ \A m \in 1 .. (k - 1) :
              sort_key(tk, i, keys[m].column, nulls_large)
                  = sort_key(tk, j, keys[m].column, nulls_large)
        /\ IF keys[k].desc
           THEN sort_key(tk, i, keys[k].column, nulls_large)
                    > sort_key(tk, j, keys[k].column, nulls_large)
           ELSE sort_key(tk, i, keys[k].column, nulls_large)
                    < sort_key(tk, j, keys[k].column, nulls_large)

\* QuerySet.order_by(*keys): every sequence of the rows the database may
\* return, rows the keys do not tell apart in either order.
order_by(tk, rows, keys, nulls_large) ==
    {list \in [1 .. Cardinality(rows) -> rows] :
        /\ \A k, l \in DOMAIN list : k # l => list[k] # list[l]
        /\ \A k, l \in DOMAIN list :
              k < l => ~sorts_before(tk, list[l], list[k], keys, nulls_large)}

\* The ordering of task_list: sort and dir as the query string gives them,
\* None when absent.
task_list_ordering(sort_field, sort_dir) ==
    LET field == IF sort_field = None THEN "due_date" ELSE sort_field
        dir == IF sort_dir = None THEN "desc" ELSE sort_dir
        column == IF field \in DOMAIN TASK_SORT_FIELDS
                  THEN TASK_SORT_FIELDS[field] ELSE "due_date"
    IN  <<[column |-> column, desc |-> (dir = "desc")]>>

\* Task.Meta.ordering, and the order_by of _render_task_list.
META_ORDERING ==
    <<[column |-> "due_date", desc |-> TRUE], [column |-> "created_at", desc |-> TRUE]>>

\* views.task_list, GET without filters: the first page of the ordered rows.
task_list_view(hub, sort_field, sort_dir, nulls_large) ==
    /\ \E list \in order_by(tasks, task_list(tasks, hub, <<>>, "", "", ""),
                           task_list_ordering(sort_field, sort_dir), nulls_large) :
          last' = Answer("list", hub, 0,
                         [tasks |-> list, sort_field |-> sort_field,
                          sort_dir |-> sort_dir])
    /\ UNCHANGED <<tasks, settings, clock, inflight>>

\* views._render_task_list, the list a mutation handler answers with.
render_task_list_view(hub, nulls_large) ==
    /\ \E list \in order_by(tasks, render_task_list(tasks, hub), META_ORDERING,
                           nulls_large) :
          last' = Answer("render_list", hub, 0,
                         [tasks |-> list, sort_field |-> None, sort_dir |-> None])
    /\ UNCHANGED <<tasks, settings, clock, inflight>>

\* Rows with no due date, with one of two due dates, soft-deleted, and of
\* another tenant.
ListRows ==
    {stored_task("h1", "call", "urgent", "pending", due_date, Null, FALSE) :
        due_date \in {Null, At(0), At(1)}}
    \cup {stored_task("h1", "call", "urgent", "pending", At(1), Null, TRUE),
          stored_task("h2", "call", "urgent", "pending", At(1), Null, FALSE)}

\* The list views read a stored table of at most MaxTasks + 1 rows.
InitLists ==
    /\ clock = 0
    /\ tasks \in UNION {[1 .. n -> ListRows] : n \in 0 .. (MaxTasks + 1)}
    /\ settings = <<>>
    /\ last = Outcome("init", None, 0, {}, "none", "ok")
    /\ inflight = [r \in Requests |-> Idle]

NextLists ==
    \/ \E sort_field \in {None, "due_date", "created", "rank"},
          sort_dir \in {None, "asc", "desc"}, nulls_large \in BOOLEAN :
          task_list_view("h1", sort_field, sort_dir, nulls_large)
    \/ \E nulls_large \in BOOLEAN : render_task_list_view("h1", nulls_large)

SpecLists == InitLists /\ [][NextLists]_vars

\* ------------------------------------------------------------------- claims

\* The step just taken is the handler op answering a request that named a
\* stored, non-deleted task of the caller's tenant.
InScope(hub, task_id) ==
    /\ task_id \in DOMAIN tasks
    /\ tasks[task_id].hub_id = hub
    /\ ~tasks[task_id].is_deleted

Handled(op) ==
    /\ last'.op = op
    /\ InScope(last'.hub, last'.id)

\* C1: in every reachable state every stored task has completed_at set if
\* and only if its status is completed.
C1_CompletedAtIffCompleted ==
    \A i \in DOMAIN tasks :
        (tasks[i].completed_at # Null) <=> (tasks[i].status = "completed")

\* C2: a complete request on a non-deleted task of the caller's tenant ends
\* with the task completed, completed_at the time of the call, and success
\* reported, whether or not the settings lookup or the follow-up insert
\* raises.
C2_CompleteNeverFails ==
    [][Handled("complete") =>
          /\ last'.outcome = "ok"
          /\ tasks'[last'.id].status = "completed"
          /\ tasks'[last'.id].completed_at = At(clock)]_vars

\* A completion whose follow-up insert raised: the task is completed now.
C2_Witness ==
    /\ last.op = "complete"
    /\ last.outcome = "ok"
    /\ last.fail = "create"
    /\ tasks[last.id].status = "completed"
    /\ tasks[last.id].completed_at = At(clock)

\* The settings row of a tenant in the table rows, where exactly one is stored.
HasSettings(rows, hub) ==
    Cardinality({i \in DOMAIN rows : rows[i].hub_id = hub}) = 1

SettingsOf(rows, hub) ==
    rows[CHOOSE i \in DOMAIN rows : rows[i].hub_id = hub]

\* The tenant's auto_create_follow_up is true when the request arrives.
AutoOn(hub) ==
    HasSettings(settings, hub) /\ SettingsOf(settings, hub).auto_create_follow_up

\* The step stored exactly one more task, a pending follow-up of the task
\* the request named, due at instant due.
OneFollowUp(due) ==
    /\ Len(tasks') = Len(tasks) + 1
    /\ \A i \in DOMAIN tasks : i # last'.id => tasks'[i] = tasks[i]
    /\ LET old == tasks[last'.id]
           new == tasks'[Len(tasks')]
       IN  /\ new.hub_id = last'.hub
           /\ new.task_type = "follow_up"
           /\ new.title = follow_up_title(old.title)
           /\ new.priority = "medium"
           /\ new.due_date = At(due)
           /\ new.customer = old.customer
           /\ new.reminder_before_minutes =
                  SettingsOf(settings, last'.hub).default_reminder_minutes
           /\ new.status = "pending"
           /\ new.completed_at = Null
           /\ ~new.is_deleted

\* The step is a complete request of a call or meeting of a tenant whose
\* auto_create_follow_up is on, and neither the settings lookup nor the
\* insert raised.
CompletesCallOrMeeting ==
    /\ Handled("complete")
    /\ last'.fail = "none"
    /\ AutoOn(last'.hub)
    /\ tasks[last'.id].task_type \in {"call", "meeting"}

C4_NoFollowUpOtherwise ==
    [][(/\ Handled("complete")
        /\ \/ tasks[last'.id].task_type \in {"task", "email", "follow_up"}
           \/ ~AutoOn(last'.hub)) =>
          /\ Len(tasks') = Len(tasks)
          /\ \A i \in DOMAIN tasks : i # last'.id => tasks'[i] = tasks[i]]_vars

\* A task of type follow_up was completed with auto_create_follow_up on and
\* room in the table, and nothing was added.
C4_Witness ==
    /\ last.op = "complete"
    /\ last.outcome = "ok"
    /\ last.fail = "none"
    /\ AutoOn(last.hub)
    /\ tasks[last.id].task_type = "follow_up"
    /\ tasks[last.id].status = "completed"
    /\ Len(tasks) < MaxTasks

\* C5 as stated: a complete request on a task that is already completed
\* stores no follow-up.
C5_NoFollowUpOnRecomplete ==
    [][(/\ Handled("complete")
        /\ tasks[last'.id].status = "completed"
        /\ tasks[last'.id].completed_at # Null) =>
          Len(tasks') = Len(tasks)]_vars

\* C6 as stated: a complete request on a task that is already completed
\* leaves its completed_at at the time of the first completion.
C6_RecompleteKeepsCompletedAt ==
    [][(/\ Handled("complete")
        /\ tasks[last'.id].status = "completed"
        /\ tasks[last'.id].completed_at # Null) =>
          /\ tasks'[last'.id].status = "completed"
          /\ tasks'[last'.id].completed_at = tasks[last'.id].completed_at]_vars

\* C7: a reopen request sets the task's status to pending and its
\* completed_at to null and changes no other field, no other task (none is
\* removed) and no settings row.
C7_ReopenFrame ==
    [][Handled("reopen") =>
          /\ last'.outcome = "ok"
          /\ tasks' = [tasks EXCEPT ![last'.id] =
                          [@ EXCEPT !.status = "pending", !.completed_at = Null]]
          /\ settings' = settings]_vars

\* A completed task was reopened while the follow-up its completion created
\* is still stored.
C7_Witness ==
    /\ last.op = "reopen"
    /\ last.outcome = "ok"
    /\ tasks[last.id].status = "pending"
    /\ tasks[last.id].completed_at = Null
    /\ \E j \in DOMAIN tasks :
          /\ j # last.id
          /\ tasks[j].task_type = "follow_up"
          /\ tasks[j].title = follow_up_title(tasks[last.id].title)
          /\ tasks[j].hub_id = tasks[last.id].hub_id

\* C8: complete, reopen, edit and delete requests naming an id that is not
\* stored, belongs to another tenant or is soft-deleted answer not-found and
\* leave every task and every settings row as they were.
C8_NotFoundIsNoOp ==
    [][(/\ last'.op \in {"complete", "reopen", "edit", "delete"}
        /\ ~InScope(last'.hub, last'.id)) =>
          /\ last'.outcome = "not_found"
          /\ tasks' = tasks
          /\ settings' = settings]_vars

\* A complete request named another tenant's pending call while the caller's
\* auto_create_follow_up was on: not found, the call is still pending.
C8_Witness ==
    /\ last.op = "complete"
    /\ last.outcome = "not_found"
    /\ last.id \in DOMAIN tasks
    /\ tasks[last.id].hub_id # last.hub
    /\ ~tasks[last.id].is_deleted
    /\ tasks[last.id].task_type = "call"
    /\ tasks[last.id].status = "pending"
    /\ AutoOn(last.hub)

Range(seq) == {seq[k] : k \in DOMAIN seq}

\* The instants a query may be asked about.
Instants == 0 .. (MaxTime + (FOLLOW_UP_DAYS + 1) * DayTicks)

\* Every row a default query of tenant hub returns at some instant: the list
\* under any filter, the re-rendered list, each dashboard counter's rows, the
\* two dashboard lists, the calendar of any window, the settings stats.
DefaultQueryRows(hub) ==
    UNION {task_list(tasks, hub, q, ty, st, pr) :
             q \in {<<>>, <<"a">>}, ty \in {"", "call"},
             st \in {"", "pending", "completed"}, pr \in {"", "urgent"}}
    \cup render_task_list(tasks, hub)
    \cup total_tasks(tasks, hub)
    \cup type_counts_rows(tasks, hub)
    \cup UNION {due_today(tasks, hub, now) \cup overdue(tasks, hub, now)
                \cup completed_this_week(tasks, hub, now)
                \cup calls_today(tasks, hub, now)
                \cup meetings_today(tasks, hub, now)
                \cup Range(upcoming_tasks(tasks, hub, now))
                \cup Range(overdue_tasks(tasks, hub, now)) : now \in Instants}
    \cup UNION {calendar_data_api(tasks, hub, lo, hi) :
                  lo \in Instants, hi \in Instants}

\* C9: a task whose soft-delete flag is set is in no default query result
\* (list, dashboard counters and lists, calendar) of any tenant, and is still
\* in the all-rows query.
C9_SoftDeletedHidden ==
    \A i \in DOMAIN tasks :
        tasks[i].is_deleted =>
            /\ \A hub \in Hubs : i \notin DefaultQueryRows(hub)
            /\ i \in all_objects(tasks)

\* A pending task due today was soft-deleted, next to a task of the same
\* tenant and the same due date that the dashboard and the calendar do show.
C9_Witness ==
    \E i \in DOMAIN tasks, j \in DOMAIN tasks :
        /\ tasks[i].is_deleted
        /\ tasks[i].status = "pending"
        /\ ~tasks[j].is_deleted
        /\ tasks[j].hub_id = tasks[i].hub_id
        /\ tasks[j].due_date = tasks[i].due_date
        /\ j \in due_today(tasks, tasks[j].hub_id, clock)
        /\ j \in calendar_data_api(tasks, tasks[j].hub_id, 0, clock + DayTicks)

\* The rows a delete or bulk delete request names, in the caller's tenant and
\* not yet soft-deleted.
DeleteTargets ==
    IF last'.op = "delete"
    THEN {i \in {last'.id} : InScope(last'.hub, i)}
    ELSE {i \in last'.ids : InScope(last'.hub, i)}

\* C10: no step removes a stored task: the stored ids only grow; a delete or
\* bulk delete request sets is_deleted and deleted_at on the rows it names and
\* changes nothing else.
C10_NeverHardDeleted ==
    [][/\ DOMAIN tasks \subseteq DOMAIN tasks'
       /\ last'.op \in {"delete", "bulk_delete"} =>
             /\ DOMAIN tasks' = DOMAIN tasks
             /\ \A i \in DOMAIN tasks :
                   tasks'[i] = IF i \in DeleteTargets
                               THEN [tasks[i] EXCEPT !.is_deleted = TRUE,
                                                     !.deleted_at = At(clock)]
                               ELSE tasks[i]]_vars

\* A delete request soft-deleted one of two stored tasks: both are stored.
C10_Witness ==
    /\ last.op = "delete"
    /\ last.outcome = "ok"
    /\ Len(tasks) = MaxTasks
    /\ tasks[last.id].is_deleted
    /\ tasks[last.id].deleted_at = At(clock)

\* The step just taken answered a bulk request.
BulkHandled == last'.op \in {"bulk_", "bulk_complete", "bulk_delete", "bulk_archive"}

\* C11: a bulk request changes only tasks whose id is listed, whose tenant is
\* the caller's and which are not soft-deleted; every other task keeps all
\* its fields, and an empty id list or an empty or unknown action changes
\* no task at all.
C11_BulkFrame ==
    [][BulkHandled =>
          /\ DOMAIN tasks' = DOMAIN tasks
          /\ \A i \in DOMAIN tasks :
                (\/ i \notin last'.ids
                 \/ tasks[i].hub_id # last'.hub
                 \/ tasks[i].is_deleted) => tasks'[i] = tasks[i]
          /\ (last'.ids = {} \/ last'.op \in {"bulk_", "bulk_archive"}) =>
                tasks' = tasks]_vars

\* A bulk complete that listed a task of the caller and one of another
\* tenant: the first is completed now, the second is still pending.
C11_Witness ==
    /\ last.op = "bulk_complete"
    /\ last.ids = {1, 2}
    /\ Len(tasks) = 2
    /\ tasks[1].hub_id = last.hub
    /\ tasks[1].status = "completed"
    /\ tasks[1].completed_at = At(clock)
    /\ tasks[2].hub_id # last.hub
    /\ tasks[2].status = "pending"

\* C12: in every reachable state at most one TaskSettings row is stored per
\* tenant, also when two requests run their first lookup-or-create for one
\* tenant with the lookup and insert steps interleaved.
C12_OneSettingsPerTenant ==
    \A hub \in Hubs :
        Cardinality({i \in DOMAIN settings : settings[i].hub_id = hub}) <= 1

\* C13: is_overdue is true exactly when due_date is set, due_date < now and
\* status is pending or in_progress; it is false for every completed or
\* cancelled task and for every task without a due_date.
C13_IsOverdue ==
    last.op = "properties" =>
        LET t == tasks[last.id]
        IN  /\ last.context.is_overdue <=>
                  (/\ t.due_date # Null
                   /\ t.due_date[1] < clock
                   /\ t.status \in {"pending", "in_progress"})
            /\ t.status \in {"completed", "cancelled"} => ~last.context.is_overdue
            /\ t.due_date = Null => ~last.context.is_overdue

\* The properties of a completed task with a past due date were read, next
\* to a pending task that is overdue at the same instant.
C13_Witness ==
    /\ last.op = "properties"
    /\ tasks[last.id].status = "completed"
    /\ tasks[last.id].due_date # Null
    /\ tasks[last.id].due_date[1] < clock
    /\ ~last.context.is_overdue
    /\ \E i \in DOMAIN tasks : is_overdue(tasks[i], clock)

\* The non-deleted tasks of the tenant the dashboard was rendered for.
Visible == {i \in DOMAIN tasks : tasks[i].hub_id = last.hub /\ ~tasks[i].is_deleted}

\* C14: the dashboard's overdue counter is the number of non-deleted tasks
\* of the tenant whose is_overdue is true at the instant of the query.
C14_OverdueCountIsPredicate ==
    last.op = "dashboard" =>
        last.context.overdue =
            Cardinality({i \in Visible : is_overdue(tasks[i], clock)})

\* A dashboard that counted an overdue task, over a table that also holds a
\* task due exactly now, which the counter leaves out.
C14_Witness ==
    /\ last.op = "dashboard"
    /\ last.context.overdue = 1
    /\ \E i \in Visible :
          tasks[i].due_date = At(clock) /\ tasks[i].status = "pending"

\* 00:00 of the day of the query, spelled without the handler's arithmetic.
DayStart == CHOOSE t \in 0 .. clock : t % DayTicks = 0 /\ clock - t < DayTicks

\* The tasks the due_today counter is to count.
DueToday ==
    {i \in Visible :
        /\ tasks[i].due_date # Null
        /\ DayStart <= tasks[i].due_date[1]
        /\ tasks[i].due_date[1] < DayStart + DayTicks
        /\ tasks[i].status \notin {"completed", "cancelled"}}

\* C15: due_today counts the non-deleted tasks of the tenant due from the
\* start of today up to but not at the start of tomorrow whose status is
\* neither completed nor cancelled; calls_today and meetings_today count
\* those of type call and of type meeting, so neither exceeds due_today.
C15_DueTodayCounters ==
    last.op = "dashboard" =>
        /\ last.context.due_today = Cardinality(DueToday)
        /\ last.context.calls_today =
              Cardinality({i \in DueToday : tasks[i].task_type = "call"})
        /\ last.context.meetings_today =
              Cardinality({i \in DueToday : tasks[i].task_type = "meeting"})
        /\ last.context.calls_today <= last.context.due_today
        /\ last.context.meetings_today <= last.context.due_today

\* A dashboard that counted a call and a meeting due today, or a call due
\* today next to an open task due at the start of tomorrow.
C15_Witness ==
    /\ last.op = "dashboard"
    /\ last.context.calls_today = 1
    /\ \/ last.context.meetings_today = 1 /\ last.context.due_today = 2
       \/ \E i \in Visible :
             /\ tasks[i].due_date = At(DayStart + DayTicks)
             /\ tasks[i].status = "pending"

\* Monday 00:00 of the week of the query, spelled without the handler's
\* arithmetic.
WeekStart == CHOOSE t \in 0 .. clock : t % WeekTicks = 0 /\ clock - t < WeekTicks

\* The query is made on the Thursday of a week.
OnThursday == clock - WeekStart \in (3 * DayTicks) .. (4 * DayTicks - 1)

\* C16: completed_this_week counts the non-deleted tasks of the tenant with
\* status completed and completed_at from Monday 00:00 of the current week up
\* to but not at Monday 00:00 of the next; on a Thursday a task completed on
\* that week's Tuesday is counted and one completed in the last instant of
\* the Sunday before is not.
C16_CompletedThisWeek ==
    last.op = "dashboard" =>
        /\ last.context.completed_this_week =
              Cardinality({i \in Visible :
                  /\ tasks[i].status = "completed"
                  /\ tasks[i].completed_at # Null
                  /\ WeekStart <= tasks[i].completed_at[1]
                  /\ tasks[i].completed_at[1] < WeekStart + WeekTicks})
        /\ OnThursday =>
              \A i \in Visible :
                  tasks[i].status = "completed" =>
                      /\ tasks[i].completed_at = At(WeekStart + DayTicks + 1) =>
                            i \in completed_this_week(tasks, last.hub, clock)
                      /\ tasks[i].completed_at = At(WeekStart - 1) =>
                            i \notin completed_this_week(tasks, last.hub, clock)

\* A Thursday dashboard over a task completed on Tuesday and one completed
\* late on the Sunday before: one is counted.
C16_Witness ==
    /\ last.op = "dashboard"
    /\ OnThursday
    /\ last.context.completed_this_week = 1
    /\ \E i \in Visible, j \in Visible :
          /\ tasks[i].status = "completed"
          /\ tasks[i].completed_at = At(WeekStart + DayTicks + 1)
          /\ tasks[j].status = "completed"
          /\ tasks[j].completed_at = At(WeekStart - 1)

\* The entries of a dashboard list are distinct tasks in ascending due_date.
Ascending(list) ==
    /\ \A k \in DOMAIN list, l \in DOMAIN list : k # l => list[k] # list[l]
    /\ \A k \in DOMAIN list, l \in DOMAIN list :
          k < l => tasks[list[k]].due_date[1] <= tasks[list[l]].due_date[1]

\* C17: the upcoming list holds only open, non-deleted tasks of the tenant
\* due within the next 7 days, in ascending due_date, at most 15 of them; the
\* overdue list holds only open overdue tasks of the tenant, in ascending
\* due_date, at most 10 of them.
C17_DashboardLists ==
    last.op = "dashboard" =>
        /\ \A k \in DOMAIN last.context.upcoming_tasks :
              LET i == last.context.upcoming_tasks[k]
              IN  /\ i \in Visible
                  /\ tasks[i].status \notin {"completed", "cancelled"}
                  /\ tasks[i].due_date # Null
                  /\ DayStart <= tasks[i].due_date[1]
                  /\ tasks[i].due_date[1] < DayStart + 7 * DayTicks
        /\ Ascending(last.context.upcoming_tasks)
        /\ Len(last.context.upcoming_tasks) <= 15
        /\ \A k \in DOMAIN last.context.overdue_tasks :
              LET i == last.context.overdue_tasks[k]
              IN  /\ i \in Visible
                  /\ tasks[i].status \notin {"completed", "cancelled"}
                  /\ is_overdue(tasks[i], clock)
        /\ Ascending(last.context.overdue_tasks)
        /\ Len(last.context.overdue_tasks) <= 10

\* A dashboard over more open tasks than either list shows: both lists are
\* full, and tasks of different due dates are listed.
C17_Witness ==
    /\ last.op = "dashboard"
    /\ Len(tasks) > 15
    /\ Len(last.context.upcoming_tasks) = 15
    /\ Len(last.context.overdue_tasks) = 10
    /\ tasks[last.context.upcoming_tasks[1]].due_date
          # tasks[last.context.upcoming_tasks[15]].due_date

\* C20: priority_order is 0 for urgent, 1 for high, 2 for medium and 3 for
\* low, so the four declared priorities are strictly ordered urgent < high <
\* medium < low, and it is 2, the rank of medium, for every other value.
C20_PriorityOrder ==
    last.op = "properties" =>
        LET p == tasks[last.id].priority
            rank == last.context.priority_order
        IN  /\ p = "urgent" => rank = 0
            /\ p = "high" => rank = 1
            /\ p = "medium" => rank = 2
            /\ p = "low" => rank = 3
            /\ p \notin {"urgent", "high", "medium", "low"} => rank = 2
            /\ PRIORITY_ORDER["urgent"] < PRIORITY_ORDER["high"]
            /\ PRIORITY_ORDER["high"] < PRIORITY_ORDER["medium"]
            /\ PRIORITY_ORDER["medium"] < PRIORITY_ORDER["low"]

\* The properties of a task with an undeclared priority were read, next to
\* a task of priority low.
C20_Witness ==
    /\ last.op = "properties"
    /\ tasks[last.id].priority \notin PRIORITY_CHOICES
    /\ last.context.priority_order = 2
    /\ \E i \in DOMAIN tasks : tasks[i].priority = "low"

\* C18: a create or edit request whose title is empty or only whitespace is
\* rejected before any mutation: the create stores no task, and the edit
\* leaves every field of the task it names as it was.
C18_BlankTitleRejected ==
    [][/\ (\E hub \in Hubs : task_add(hub, AddBlank)) =>
             (tasks' = tasks /\ settings' = settings /\ last'.outcome # "ok")
       /\ (\E hub \in Hubs, task_id \in RequestIds : task_edit(hub, task_id, EditBlank)) =>
             (tasks' = tasks /\ settings' = settings /\ last'.outcome # "ok")]_vars

\* An edit request with a blank title named a stored task of the caller
\* whose columns differ from the request's, and was turned down.
C18_Witness ==
    /\ last.op = "edit"
    /\ last.outcome = "invalid"
    /\ last.id \in DOMAIN tasks
    /\ tasks[last.id].hub_id = last.hub
    /\ ~tasks[last.id].is_deleted
    /\ tasks[last.id].title # <<>>
    /\ tasks[last.id].task_type # EditBlank.task_type
    /\ tasks[last.id].status # EditBlank.status

\* C19: every stored task has a declared type, priority and status; a
\* create, edit or assistant request with a value outside the declared sets
\* stores nothing.
C19_DeclaredValuesOnly ==
    \A i \in DOMAIN tasks :
        /\ tasks[i].task_type \in {"task", "call", "meeting", "email", "follow_up"}
        /\ tasks[i].priority \in {"low", "medium", "high", "urgent"}
        /\ tasks[i].status \in {"pending", "in_progress", "completed", "cancelled"}

\* The listed tasks come in descending due_date and, where two have the same
\* due_date (or both have none), the later created one first.
DefaultOrder(list) ==
    \A k \in DOMAIN list, l \in DOMAIN list :
        k < l =>
            LET a == tasks[list[k]]
                b == tasks[list[l]]
            IN  /\ (a.due_date # Null /\ b.due_date # Null) =>
                      a.due_date[1] >= b.due_date[1]
                /\ a.due_date = b.due_date => list[k] > list[l]

\* C21: a task listing asked for without a sort field comes in descending
\* due_date and, among tasks of equal due_date, in descending created_at,
\* both from the list view and from the list re-rendered after a mutation.
C21_DefaultListOrder ==
    /\ (last.op = "list" /\ last.context.sort_field = None
            /\ last.context.sort_dir = None) =>
          DefaultOrder(last.context.tasks)
    /\ last.op = "render_list" => DefaultOrder(last.context.tasks)

\* A complete request that has written its save and not yet answered.
SavedComplete(r) ==
    inflight[r].kind = "complete" /\ inflight[r].pc \in {"get", "create", "have"}

\* C22: with complete and reopen requests on one task interleaved in any
\* way, each reading the task and then writing status and completed_at in
\* one save, the stored task is always completed with completed_at set or
\* pending with completed_at null; once two concurrent complete requests on
\* a task have both saved, the task is completed.
C22_LastWriteWinsConsistent ==
    /\ \A i \in DOMAIN tasks :
          \/ tasks[i].status = "completed" /\ tasks[i].completed_at # Null
          \/ tasks[i].status = "pending" /\ tasks[i].completed_at = Null
    /\ \A r1 \in Requests, r2 \in Requests :
          (/\ r1 # r2
           /\ SavedComplete(r1)
           /\ SavedComplete(r2)
           /\ inflight[r1].id = inflight[r2].id) =>
              tasks[inflight[r1].id].status = "completed"

\* A reopen request has read a task and not yet saved, while a complete
\* request on the same task has saved at the last tick.
C22_Witness ==
    \E r1 \in Requests, r2 \in Requests :
        /\ inflight[r1].kind = "reopen"
        /\ inflight[r1].pc = "loaded"
        /\ SavedComplete(r2)
        /\ inflight[r2].id = inflight[r1].id
        /\ tasks[inflight[r2].id].status = "completed"
        /\ tasks[inflight[r2].id].completed_at = At(MaxTime)

\* C23: a bulk complete sets status completed and completed_at now on every
\* selected task, whatever its status was, changes no other column, and
\* creates no follow-up task, also with auto_create_follow_up on and calls
\* or meetings selected: as many tasks are stored after as before.
C23_BulkCompleteNoFollowUp ==
    [][last'.op = "bulk_complete" =>
          /\ Len(tasks') = Len(tasks)
          /\ \A i \in DOMAIN tasks :
                (i \in last'.ids /\ InScope(last'.hub, i)) =>
                    tasks'[i] = [tasks[i] EXCEPT !.status = "completed",
                                                 !.completed_at = At(clock)]]_vars

\* A bulk complete with auto_create_follow_up on completed a call and a
\* task of another priority now; no follow-up is stored.
C23_Witness ==
    /\ last.op = "bulk_complete"
    /\ AutoOn(last.hub)
    /\ \E i \in last.ids, j \in last.ids :
          /\ i \in DOMAIN tasks /\ j \in DOMAIN tasks /\ i # j
          /\ tasks[i].hub_id = last.hub /\ tasks[j].hub_id = last.hub
          /\ tasks[i].task_type = "call"
          /\ tasks[i].status = "completed"
          /\ tasks[i].completed_at = At(clock)
          /\ tasks[j].status = "completed"
          /\ tasks[j].completed_at = At(clock)
          /\ tasks[j].priority # tasks[i].priority
    /\ \A i \in DOMAIN tasks : tasks[i].task_type # "follow_up"

\* C24: in every state a task has deleted_at set if and only if its
\* soft-delete flag is true, and no operation turns a true flag back to
\* false.
C24_DeletedAtIffFlag ==
    [][/\ \A i \in DOMAIN tasks :
             tasks[i].is_deleted <=> tasks[i].deleted_at # Null
       /\ \A i \in DOMAIN tasks' :
             tasks'[i].is_deleted <=> tasks'[i].deleted_at # Null
       /\ \A i \in DOMAIN tasks :
             tasks[i].is_deleted =>
                 (i \in DOMAIN tasks' /\ tasks'[i].is_deleted)]_vars

\* A task was soft-deleted at an earlier tick, and a later request on its
\* id found nothing to act on.
C24_Witness ==
    /\ last.op \in {"edit", "complete", "reopen", "assistant_update"}
    /\ last.outcome = "not_found"
    /\ last.id \in DOMAIN tasks
    /\ tasks[last.id].is_deleted
    /\ tasks[last.id].deleted_at # Null
    /\ tasks[last.id].deleted_at[1] < clock

====
